---------------------------- MODULE Spec2Model ----------------------------
(***************************************************************************)
(* Grid ray caster, scene and collision model of src/index.ts (the last    *)
(* snapshot of the file, lines 684-1448).                                  *)
(*                                                                         *)
(* Numbers.  The program computes with IEEE doubles.  Here a number is an  *)
(* exact rational [n |-> numerator, d |-> denominator] in lowest terms     *)
(* with d > 0; every arithmetic operation of the source is carried out on  *)
(* rationals, so Math.floor, Math.ceil, Math.sign, the EPS nudges and the  *)
(* comparisons are computed, not assumed.  Rounding error of doubles is    *)
(* outside the model.                                                      *)
(***************************************************************************)
EXTENDS Integers, Sequences, FiniteSets, TLC

(***************************************************************************)
(* Rational arithmetic                                                     *)
(***************************************************************************)
Abs(k) == IF k < 0 THEN -k ELSE k

\* The one element of a singleton set.  The arithmetic below binds each
\* operand once, as {F(x, y) : x \in {a}, y \in {b}}, so that an operand
\* expression is evaluated a single time however often its value is used.
Val(S) == CHOOSE v \in S : TRUE

\* const x = value; F(x)
Let(value, F(_)) == Val({F(x) : x \in {value}})

RECURSIVE Gcd(_, _)
GcdStep(x, y) == IF y = 0 THEN x ELSE Gcd(y, x % y)

Gcd(a, b) == Val({GcdStep(x, y) : x \in {a}, y \in {b}})

RatSigned(n, d, g) ==
  IF d < 0 THEN [n |-> (-n) \div g, d |-> (-d) \div g]
  ELSE [n |-> n \div g, d |-> d \div g]

\* the rational n / d (d # 0) in lowest terms with a positive denominator
Rat(n, d) ==
  Val({RatSigned(x, y, g) : <<x, y, g>> \in
         {<<u, v, Gcd(Abs(u), Abs(v))>> : u \in {n}, v \in {d}}})

I(k) == [n |-> k, d |-> 1]

RAddOnGcd(x, y, g) ==
  Rat(x.n * (y.d \div g) + y.n * (x.d \div g), x.d * (y.d \div g))

RAdd(a, b) ==
  Val({RAddOnGcd(t[1], t[2], t[3]) : t \in
         {<<x, y, Gcd(x.d, y.d)>> : x \in {a}, y \in {b}}})

RNeg(a) == Val({[n |-> -x.n, d |-> x.d] : x \in {a}})

RSub(a, b) == RAdd(a, RNeg(b))

RMulOnGcd(x, y, g1, g2) ==
  Rat((x.n \div g1) * (y.n \div g2), (x.d \div g2) * (y.d \div g1))

RMul(a, b) ==
  Val({RMulOnGcd(t[1], t[2], t[3], t[4]) : t \in
         {<<x, y, Gcd(Abs(x.n), y.d), Gcd(Abs(y.n), x.d)>> : x \in {a}, y \in {b}}})

\* a / b for b # 0 (the source divides only behind a test that b # 0)
RDiv(a, b) == RMul(a, Val({Rat(y.d, y.n) : y \in {b}}))

\* Math.floor
Floor(a) == Val({x.n \div x.d : x \in {a}})

\* a < b: by the integer parts, then by the fractional parts
RLtValues(x, y) ==
  IF x.n \div x.d # y.n \div y.d THEN x.n \div x.d < y.n \div y.d
  ELSE (x.n % x.d) * y.d < (y.n % y.d) * x.d

RLt(a, b) == Val({RLtValues(x, y) : x \in {a}, y \in {b}})

RLe(a, b) == ~RLt(b, a)

RMax(a, b) == Val({IF RLt(x, y) THEN y ELSE x : x \in {a}, y \in {b}})

\* Math.ceil, Math.sign
Ceil(a) == Val({-((-x.n) \div x.d) : x \in {a}})

Sign(a) == Val({IF x.n > 0 THEN 1 ELSE IF x.n < 0 THEN -1 ELSE 0 : x \in {a}})

IsInt(a) == a.d = 1

(***************************************************************************)
(* Program constants (src/index.ts:684-693)                                *)
(***************************************************************************)
EPS_DENOMINATOR == 1000000

\* const EPS = 1e-6
\* a marcher without the epsilon nudge
EPS_Zero == I(0)

EPS == Rat(1, EPS_DENOMINATOR)

FAR_CLIPPING_PLANE == 20

PLAYER_SPEED == 2

\* const PLAYER_SIZE = 0.5
PLAYER_SIZE == Rat(1, 2)

(***************************************************************************)
(* class Vector2                                                           *)
(***************************************************************************)
Vector2(x, y) == [x |-> x, y |-> y]

\* a vector with integer coordinates
IVec(x, y) == Vector2(I(x), I(y))

zero == IVec(0, 0)

scalar(value) == Let(value, LAMBDA v : Vector2(v, v))

add(this, that) ==
  Let(<<this, that>>,
      LAMBDA t : Vector2(RAdd(t[1].x, t[2].x), RAdd(t[1].y, t[2].y)))

sub(this, that) ==
  Let(<<this, that>>,
      LAMBDA t : Vector2(RSub(t[1].x, t[2].x), RSub(t[1].y, t[2].y)))

scale(this, value) ==
  Let(<<this, value>>,
      LAMBDA t : Vector2(RMul(t[1].x, t[2]), RMul(t[1].y, t[2])))

sqrLength(this) ==
  Let(this, LAMBDA v : RAdd(RMul(v.x, v.x), RMul(v.y, v.y)))

sqrDistanceTo(this, that) == sqrLength(sub(that, this))

dot(this, that) ==
  Let(<<this, that>>,
      LAMBDA t : RAdd(RMul(t[1].x, t[2].x), RMul(t[1].y, t[2].y)))

\* the rotation by a quarter turn the other way round
rot90_Clockwise(this) == Let(this, LAMBDA v : Vector2(v.y, RNeg(v.x)))

rot90(this) == Let(this, LAMBDA v : Vector2(RNeg(v.y), v.x))

\* map(Math.floor): the result has integer coordinates
mapFloor(this) == Let(this, LAMBDA v : IVec(Floor(v.x), Floor(v.y)))

(***************************************************************************)
(* Tiles and class Scene                                                   *)
(*   type Tile = String | HTMLImageElement | null                          *)
(* getWall also yields undefined; the four kinds are kept apart.           *)
(***************************************************************************)
Null == [kind |-> "null", name |-> ""]

Undefined == [kind |-> "undefined", name |-> ""]

Str(c) == [kind |-> "string", name |-> c]

Img(c) == [kind |-> "image", name |-> c]

\* Number.MIN_VALUE is the smallest positive double (2^-1074).  The
\* constructor only compares it and subtracts integers from it, so it is
\* modelled as a positive rational below every other positive number used.
MIN_VALUE_DENOMINATOR == 1000000000

NumberMinValue == Rat(1, MIN_VALUE_DENOMINATOR)

RECURSIVE MaxRowLength(_, _)
MaxRowLength(rows, acc) ==
  IF rows = << >> THEN acc
  ELSE MaxRowLength(Tail(rows), RMax(acc, I(Len(Head(rows)))))

\* for (let i = 0; i < this.width - row.length; ++i) this.walls.push(null)
RECURSIVE Padding(_, _, _)
Padding(i, width, len) ==
  IF RLt(I(i), RSub(width, I(len)))
  THEN <<Null>> \o Padding(i + 1, width, len)
  ELSE << >>

RECURSIVE PaddedRows(_, _)
PaddedRows(rows, width) ==
  IF rows = << >> THEN << >>
  ELSE Head(rows) \o Padding(0, width, Len(Head(rows)))
         \o PaddedRows(Tail(rows), width)

\* new Scene(rows): width and height are numbers, walls the flat tile array
SceneNew(rows) ==
  LET w == MaxRowLength(rows, NumberMinValue)
  IN  [walls |-> PaddedRows(rows, w), width |-> w, height |-> I(Len(rows))]

size(s) == Vector2(s.width, s.height)

\* the bounds test without its lower bound on x
contains_NoLowerBound(s, p) ==
  Let(p, LAMBDA q :
    /\ RLt(q.x, s.width)
    /\ RLe(I(0), q.y) /\ RLt(q.y, s.height))

contains(s, p) ==
  Let(p, LAMBDA q :
    /\ RLe(I(0), q.x) /\ RLt(q.x, s.width)
    /\ RLe(I(0), q.y) /\ RLt(q.y, s.height))

\* this.walls[i] for a number i: undefined unless i is an index of the array
ArrayAt(arr, i) ==
  Let(i, LAMBDA k :
    IF IsInt(k) /\ k.n >= 0 /\ k.n < Len(arr) THEN arr[k.n + 1] ELSE Undefined)

\* the tile array indexed column-major
getWall_Transposed(s, p) ==
  Let(p, LAMBDA q :
    IF ~contains(s, q) THEN Undefined
    ELSE ArrayAt(s.walls, RAdd(RMul(q.x, s.width), q.y)))

getWall(s, p) ==
  Let(p, LAMBDA q :
    IF ~contains(s, q) THEN Undefined
    ELSE ArrayAt(s.walls, RAdd(RMul(q.y, s.width), q.x)))

\* the indices at which a getWall(p) call reads this.walls: none when it
\* returns early
getWallReads(s, p) ==
  Let(p, LAMBDA q :
    IF ~contains(s, q) THEN {}
    ELSE {RAdd(RMul(q.y, s.width), q.x)})

\* only null counts as no wall
isWall_UndefinedIsWall(s, p) ==
  Let(getWall(s, p), LAMBDA tile : tile # Null)

isWall(s, p) ==
  Let(getWall(s, p), LAMBDA tile : tile # Null /\ tile # Undefined)

(***************************************************************************)
(* Grid ray marcher                                                        *)
(***************************************************************************)
\* snapping to the grid line without stepping off the current one
alignToGrid_NoNudge(x, dx) ==
  IF dx.n > 0 THEN I(Ceil(x))
  ELSE IF dx.n < 0 THEN I(Floor(x))
  ELSE x

alignToGrid(x, dx) ==
  IF dx.n > 0 THEN I(Ceil(RAdd(x, RMul(I(Sign(dx)), EPS))))
  ELSE IF dx.n < 0 THEN I(Floor(RAdd(x, RMul(I(Sign(dx)), EPS))))
  ELSE x

\* the ray's end floored as it is
findCellAtRayEnd_NoNudge(start, end) == mapFloor(end)

\* the ray's end nudged backwards: the cell the ray is leaving
findCellAtRayEnd_Behind(start, end) ==
  Let(sub(end, start), LAMBDA delta :
    IVec(Floor(RSub(end.x, RMul(I(Sign(delta.x)), EPS))),
         Floor(RSub(end.y, RMul(I(Sign(delta.y)), EPS)))))

findCellAtRayEnd(start, end) ==
  Let(sub(end, start), LAMBDA delta :
    IVec(Floor(RAdd(end.x, RMul(I(Sign(delta.x)), EPS))),
         Floor(RAdd(end.y, RMul(I(Sign(delta.y)), EPS)))))

\* the crossing that is farther from p2 is chosen
Closest_Farther(p2, intersection, potentialIntersection) ==
  IF RLt(sqrDistanceTo(p2, intersection), sqrDistanceTo(p2, potentialIntersection))
  THEN potentialIntersection
  ELSE intersection

\* only the crossing of the next vertical grid line is considered
Closest_VerticalOnly(p2, intersection, potentialIntersection) == intersection

\* Choose the intersection point that is closest to p2
Closest(p2, intersection, potentialIntersection) ==
  IF RLt(sqrDistanceTo(p2, potentialIntersection), sqrDistanceTo(p2, intersection))
  THEN potentialIntersection
  ELSE intersection

findRayIntersection(p1, p2) ==
  Let(sub(p2, p1), LAMBDA delta :
    IF delta.x # I(0)
    THEN Let(RDiv(delta.y, delta.x), LAMBDA slope :
         Let(RSub(p1.y, RMul(slope, p1.x)), LAMBDA intercept :
         Let(alignToGrid(p2.x, delta.x), LAMBDA xGridLine :
         Let(RAdd(RMul(slope, xGridLine), intercept), LAMBDA yGridLine :
         Let(Vector2(xGridLine, yGridLine), LAMBDA intersection :
           IF slope # I(0)
           THEN Let(alignToGrid(p2.y, delta.y), LAMBDA yGridLineSnap :
                Let(RDiv(RSub(yGridLineSnap, intercept), slope), LAMBDA xGridLineSnap :
                Let(Vector2(xGridLineSnap, yGridLineSnap), LAMBDA potentialIntersection :
                  Closest(p2, intersection, potentialIntersection))))
           ELSE intersection)))))
    ELSE Vector2(p2.x, alignToGrid(p2.y, delta.y)))

(***************************************************************************)
(* Player, collision and the movement of one frame                         *)
(***************************************************************************)
Player(position, direction) == [position |-> position, direction |-> direction]

\* player.direction is an angle.  The model keeps it as a whole number of
\* quarter turns (modulo a full turn, only its cosine and sine are used) from
\* the heading (4/5, 3/5), so that Vector2.angle has rational components.
Headings ==
  << Vector2(Rat(4, 5), Rat(3, 5)), Vector2(Rat(-3, 5), Rat(4, 5)),
     Vector2(Rat(-4, 5), Rat(-3, 5)), Vector2(Rat(3, 5), Rat(-4, 5)) >>

angle(direction) == Headings[(direction % 4) + 1]

\* the loops that stop one short of the right bottom corner
CellsOfLoop_Short(leftTopCorner, rightBottomCorner) ==
  {IVec(x, y) : x \in leftTopCorner.x.n..(rightBottomCorner.x.n - 1),
                y \in leftTopCorner.y.n..(rightBottomCorner.y.n - 1)}

\* the cells x = leftTopCorner.x .. rightBottomCorner.x, y likewise
CellsOfLoop(leftTopCorner, rightBottomCorner) ==
  {IVec(x, y) : x \in leftTopCorner.x.n..rightBottomCorner.x.n,
                y \in leftTopCorner.y.n..rightBottomCorner.y.n}

\* only the cell of the target point itself is examined
canPlayerGoThere_PointOnly(s, newPosition) == ~isWall(s, mapFloor(newPosition))

canPlayerGoThere(s, newPosition) ==
  Let(<<mapFloor(sub(newPosition, scalar(RMul(PLAYER_SIZE, Rat(1, 2))))),
        mapFloor(add(newPosition, scalar(RMul(PLAYER_SIZE, Rat(1, 2)))))>>,
      LAMBDA corners :
        \A cell \in CellsOfLoop(corners[1], corners[2]) : ~isWall(s, cell))

\* one call of canPlayerGoThere and what it returned
Call(s, newPosition) ==
  Let(newPosition, LAMBDA q : [newPosition |-> q, result |-> canPlayerGoThere(s, q)])

\* the second check made at the old x instead of the updated one
MoveY_AtOldX(s, position, newY, callX) ==
  Let(Call(s, Vector2(position.x, newY)), LAMBDA callY :
    [position |-> Vector2(IF callX.result THEN callX.newPosition.x ELSE position.x,
                          IF callY.result THEN newY ELSE position.y),
     calls |-> <<callX, callY>>])

\* the y coordinate after the second check, given the first call made
MoveY(s, position, newY, callX) ==
  Let(Call(s, Vector2(IF callX.result THEN callX.newPosition.x ELSE position.x, newY)),
      LAMBDA callY :
        [position |-> Vector2(callY.newPosition.x,
                              IF callY.result THEN newY ELSE position.y),
         calls |-> <<callX, callY>>])

\* the move is made only when the whole new position is free
MovePlayer_AllOrNothing(s, position, movement, elapsedSeconds) ==
  Let(Call(s, add(position, scale(movement, elapsedSeconds))), LAMBDA call :
    [position |-> IF call.result THEN call.newPosition ELSE position,
     calls |-> <<call, call>>])

\* const newX = ...; if (canPlayerGoThere(...)) player.position.x = newX;
\* const newY = ...; if (canPlayerGoThere(...)) player.position.y = newY;
\* yields the new position and the two calls made
MovePlayer(s, position, movement, elapsedSeconds) ==
  Let(Vector2(RAdd(position.x, RMul(movement.x, elapsedSeconds)),
              RAdd(position.y, RMul(movement.y, elapsedSeconds))),
      LAMBDA new :
        MoveY(s, position, new.y, Call(s, Vector2(new.x, position.y))))

(***************************************************************************)
(* Rendering: Player.fovRange, castRay as one call, renderScene,           *)
(* renderMinimap and renderGame.  What is drawn is kept as the list of     *)
(* drawing commands issued.                                                *)
(***************************************************************************)
\* a near clipping plane at the player itself
NEAR_CLIPPING_PLANE_Zero == I(0)

NEAR_CLIPPING_PLANE == Rat(1, 10)

\* Math.tan(FOV * 0.5) for FOV = Math.PI * 0.5
TanHalfFOV == I(1)

\* The program's screen is Math.floor(16 * SCREEN_FACTOR) columns wide, an
\* even number; the screen of the model is 2 * HalfScreenColumns wide.
HalfScreenColumns == 2

SCREEN_WIDTH == 2 * HalfScreenColumns

SCREEN_HEIGHT == 630

\* Math.sqrt on the squares of rationals, the only arguments it is given here
ISqrt(k) == CHOOSE r \in 0..k : r * r = k

Sqrt(a) == Let(a, LAMBDA x : Rat(ISqrt(x.n), ISqrt(x.d)))

RAbs(a) == Let(a, LAMBDA x : [n |-> Abs(x.n), d |-> x.d])

length(this) == Sqrt(sqrLength(this))

norm(this) ==
  Let(length(this), LAMBDA l :
    IF l = I(0) THEN zero
    ELSE Vector2(RDiv(this.x, l), RDiv(this.y, l)))

\* t = 1 whatever the argument
interpolate_ToThat(this, that, t) == that

interpolate(this, that, t) == add(scale(sub(that, this), t), this)

\* the front point taken behind the player
fovRange_Behind(pl) ==
  Let(RMul(TanHalfFOV, NEAR_CLIPPING_PLANE), LAMBDA distanceToEdge :
  Let(sub(pl.position, scale(angle(pl.direction), NEAR_CLIPPING_PLANE)),
      LAMBDA frontPoint :
  Let(scale(norm(rot90(sub(frontPoint, pl.position))), distanceToEdge),
      LAMBDA directionToEdge :
    <<sub(frontPoint, directionToEdge), add(frontPoint, directionToEdge)>>)))

\* Player.fovRange(): [leftEdge, rightEdge]
fovRange(pl) ==
  Let(RMul(TanHalfFOV, NEAR_CLIPPING_PLANE), LAMBDA distanceToEdge :
  Let(add(pl.position, scale(angle(pl.direction), NEAR_CLIPPING_PLANE)),
      LAMBDA frontPoint :
  Let(scale(norm(rot90(sub(frontPoint, pl.position))), distanceToEdge),
      LAMBDA directionToEdge :
    <<sub(frontPoint, directionToEdge), add(frontPoint, directionToEdge)>>)))

\* castRay(scene, p1, p2) as one call: origin is `let start = p1`
RECURSIVE castRayLoop(_, _, _, _)
castRayLoop(s, origin, a, b) ==
  IF ~RLt(sqrDistanceTo(origin, a), I(FAR_CLIPPING_PLANE * FAR_CLIPPING_PLANE))
  THEN b
  ELSE IF isWall(s, findCellAtRayEnd(a, b)) THEN b
  ELSE Let(findRayIntersection(a, b), LAMBDA intersection :
         castRayLoop(s, origin, b, intersection))

castRay(s, a, b) == Let(<<a, b>>, LAMBDA ray : castRayLoop(s, ray[1], ray[1], ray[2]))

\* the rectangle of a strip: Math.floor(screenX),
\* Math.floor((SCREEN_HEIGHT - wallHeight) * 0.5), Math.ceil(1), Math.ceil(wallHeight)
Strip(screenX, wallHeight) ==
  [x |-> screenX,
   y |-> Floor(RMul(RSub(I(SCREEN_HEIGHT), wallHeight), Rat(1, 2))),
   w |-> 1,
   h |-> Ceil(wallHeight)]

\* the x offset is used whichever edge was struck
TextureCoordinate_AlwaysX(relativeHitPosition) == relativeHitPosition.x

\* the texture coordinate of a hit at relativeHitPosition within its cell
TextureCoordinate(relativeHitPosition) ==
  IF /\ \/ RLt(RAbs(relativeHitPosition.x), EPS)
        \/ RLt(RAbs(RSub(relativeHitPosition.x, I(1))), EPS)
     /\ RLt(I(0), relativeHitPosition.y)
  THEN relativeHitPosition.y
  ELSE relativeHitPosition.x

\* wall.width of the texture images, in pixels
TextureWidth == 4

\* the source x of drawImage: Math.floor(textureCoordinate * wall.width)
SourceColumn(textureCoordinate) ==
  Floor(RMul(textureCoordinate, I(TextureWidth)))

\* a height that falls linearly with the depth
WallHeight_Linear(depth) == RSub(I(SCREEN_HEIGHT), depth)

\* const wallHeight = SCREEN_HEIGHT / rayVector.dot(direction)
WallHeight(depth) == RDiv(I(SCREEN_HEIGHT), depth)

\* the drawing commands of one column for the tile found at the ray's end
ColumnCommands(pl, screenX, ray, hitCellCoordinates, wall) ==
  IF wall.kind \in {"string", "image"}
  THEN Let(dot(sub(ray, pl.position), angle(pl.direction)), LAMBDA depth :
       Let(WallHeight(depth), LAMBDA wallHeight :
         IF wall.kind = "string"
         THEN << [op |-> "fillRect", style |-> "purple",
                  rect |-> Strip(screenX, wallHeight), wallHeight |-> wallHeight] >>
         ELSE << [op |-> "drawImage", image |-> wall,
                  textureCoordinate |->
                    TextureCoordinate(sub(ray, hitCellCoordinates)),
                  sx |-> SourceColumn(TextureCoordinate(sub(ray, hitCellCoordinates))),
                  rect |-> Strip(screenX, wallHeight), wallHeight |-> wallHeight],
                 [op |-> "fillRect", style |-> "shade",
                  alpha |-> RSub(I(1), RDiv(I(1), depth)),
                  rect |-> Strip(screenX, wallHeight), wallHeight |-> wallHeight] >>))
  ELSE << >>

\* the throughPoint of column screenX:
\* leftRay.interpolate(rightRay, screenX / SCREEN_WIDTH)
ThroughPoint(leftRay, rightRay, screenX) ==
  interpolate(leftRay, rightRay, Rat(screenX, SCREEN_WIDTH))

\* the hit cell taken as the floor of the hit point
renderColumn_FloorOfHit(s, pl, screenX, throughPoint, ray) ==
  Let(mapFloor(ray), LAMBDA hitCellCoordinates :
  Let(getWall(s, hitCellCoordinates), LAMBDA wall :
    [screenX |-> screenX, throughPoint |-> throughPoint, ray |-> ray,
     hitCellCoordinates |-> hitCellCoordinates, wall |-> wall,
     commands |-> ColumnCommands(pl, screenX, ray, hitCellCoordinates, wall)]))

\* one iteration of the loop of renderScene over screenX, from the point
\* that castRay returned
renderColumn(s, pl, screenX, throughPoint, ray) ==
  Let(findCellAtRayEnd(pl.position, ray), LAMBDA hitCellCoordinates :
  Let(getWall(s, hitCellCoordinates), LAMBDA wall :
    [screenX |-> screenX, throughPoint |-> throughPoint, ray |-> ray,
     hitCellCoordinates |-> hitCellCoordinates, wall |-> wall,
     commands |-> ColumnCommands(pl, screenX, ray, hitCellCoordinates, wall)]))

NoMinimap == [drawn |-> FALSE, tiles |-> {}, player |-> zero]

\* renderMinimap is given the player and the scene by reference and moves the
\* player by one cell
renderMinimap_MovesPlayer(s, pl) ==
  [minimap |-> [drawn |-> TRUE, tiles |-> {}, player |-> pl.position],
   player |-> Player(add(pl.position, IVec(1, 0)), pl.direction),
   scene |-> s]

\* renderMinimap(ctx, player, position, size, scene): the cells drawn as
\* tiles (cell instanceof String is false of a primitive string, so only
\* image tiles are drawn) and the corner of the player's square; the player
\* and the scene are given by reference and are returned as the call leaves
\* them
renderMinimap(s, pl) ==
  [minimap |->
     [drawn |-> TRUE,
      tiles |-> {c \in {IVec(x, y) : x \in 0..(Ceil(s.width) - 1),
                                     y \in 0..(Ceil(s.height) - 1)} :
                   getWall(s, c).kind = "image"},
      player |-> sub(pl.position, scalar(RMul(PLAYER_SIZE, Rat(1, 2))))],
   player |-> pl,
   scene |-> s]

(***************************************************************************)
(* State                                                                   *)
(***************************************************************************)
VARIABLES
  layout,    \* the rows handed to new Scene(...)
  scene,     \* the Scene object
  lookup,    \* the last Scene lookup made: its coordinate and what came back
  start,     \* castRay: let start = p1 (the origin of the ray)
  through,   \* castRay: the p2 argument of the call
  p1,        \* castRay: previous point of the ray
  p2,        \* castRay: current end point of the ray
  pc,        \* castRay: "idle", "loop" (at the while test) or "done" (returned p2)
  player,    \* the Player object: position and direction
  movingForward, movingBackward, turningLeft, turningRight,  \* the key flags
  frameLocals, \* the last frame: elapsedSeconds, what its two tests returned and
               \* the player as renderGame was given it
  goThere,     \* the last call of canPlayerGoThere made on its own, and its result
  canvas,      \* the last renderGame call: how far it is and what it has drawn
  marcher,     \* the last call of a grid function made on its own, and its result
  keyLog,      \* history: per key, the kind of its most recent non-repeat event
  server       \* the hot-reload server: its socket list, the open connections
               \* and the messages each has been sent

castVars == <<start, through, p1, p2, pc>>

gameVars ==
  <<player, movingForward, movingBackward, turningLeft, turningRight, frameLocals,
    goThere, canvas, keyLog, server>>

vars == <<layout, scene, lookup, castVars, gameVars, marcher>>

\* before the first frame (as after a frame in which no time elapsed)
NoFrame ==
  [elapsedSeconds |-> I(0), canX |-> TRUE, canY |-> TRUE,
   rendered |-> Player(zero, 0)]

NoCall == [newPosition |-> zero, result |-> FALSE]

\* nothing has been rendered
NoCanvas ==
  [pc |-> "idle", showMinimap |-> FALSE, fov |-> <<zero, zero>>, screenX |-> 0,
   columns |-> << >>, minimap |-> NoMinimap]

\* the keys that have a flag
FlagKeys == {"KeyW", "KeyS", "KeyA", "KeyD"}

\* no key event has arrived
NoKeyLog == [key \in FlagKeys |-> "none"]

\* the server has started: no connection yet, nothing sent
NoServer == [webSockets |-> << >>, open |-> {}, inbox |-> << >>]

\* nothing of the game is running
GameIdle ==
  /\ player = Player(zero, 0)
  /\ movingForward = FALSE /\ movingBackward = FALSE
  /\ turningLeft = FALSE /\ turningRight = FALSE
  /\ frameLocals = NoFrame
  /\ goThere = NoCall
  /\ canvas = NoCanvas
  /\ keyLog = NoKeyLog
  /\ server = NoServer

\* no ray is being cast
CastIdle ==
  /\ start = zero /\ through = zero /\ p1 = zero /\ p2 = zero /\ pc = "idle"

\* no grid function has been called on its own
NoMarcher ==
  [fn |-> "none", x |-> I(0), dx |-> I(0), p1 |-> zero, p2 |-> zero,
   number |-> I(0), point |-> zero]

NoLookup ==
  [p |-> zero, contains |-> FALSE, tile |-> Undefined, wall |-> FALSE,
   reads |-> {}]

(***************************************************************************)
(* castRay(scene, p1, p2), one loop iteration per step                     *)
(***************************************************************************)
MaxOriginX == 5

MaxDir == 2

MaxReach == 3

\* ray origins: the points (i/2, 1/2) and (i/2, 1)
Origins == {Vector2(Rat(i, 2), y) : i \in 1..MaxOriginX, y \in {Rat(1, 2), I(1)}}

\* ray directions: the primitive integer vectors (dx, dy) with
\* |dx|, |dy| <= MaxDir and |dx| + |dy| <= MaxDir + 1
Directions ==
  {v \in {IVec(dx, dy) : dx \in -MaxDir..MaxDir, dy \in -MaxDir..MaxDir} :
     /\ Gcd(Abs(v.x.n), Abs(v.y.n)) = 1
     /\ Abs(v.x.n) + Abs(v.y.n) <= MaxDir + 1}

\* how far along the direction throughPoint lies, in half directions
Reaches == {2, MaxReach}

W == Img("wall1")

B == Str("brown")

G == Str("grey")

N == Null

\* the example row of the specification, an open scene, and a scene with walls
ExampleRow == << <<N, N, N, W, N>> >>

OpenRows == << <<N, N, N>>, <<N, N, N>>, <<N, N, N>> >>

WalledRows ==
  << <<N, N, N, N, W>>, <<N, N, N, W>>, <<W, B, N>>, <<N, N, N, N>> >>

CastLayouts == {ExampleRow, OpenRows, WalledRows}

InitCast ==
  /\ layout = << >>
  /\ scene = SceneNew(<< >>)
  /\ lookup = NoLookup
  /\ marcher = NoMarcher
  /\ CastIdle
  /\ GameIdle

\* a scene is built and castRay(scene, origin, throughPoint) is called with
\* throughPoint = origin + (k/2) * direction, which differs from origin
CastCall ==
  /\ pc = "idle"
  /\ layout' \in CastLayouts
  /\ scene' = SceneNew(layout')
  /\ start' \in Origins
  /\ \E dir \in Directions, k \in Reaches :
        through' = add(start', scale(dir, Rat(k, 2)))
  /\ p1' = start'
  /\ p2' = through'
  /\ pc' = "loop"
  /\ UNCHANGED <<lookup, gameVars, marcher>>

\* the squared distance compared with the unsquared far clipping distance
InsideFarClip_Unsquared == RLt(sqrDistanceTo(start, p1), I(FAR_CLIPPING_PLANE))

\* while (start.sqrDistanceTo(p1) < FAR_CLIPPING_PLANE * FAR_CLIPPING_PLANE)
InsideFarClip ==
  RLt(sqrDistanceTo(start, p1), I(FAR_CLIPPING_PLANE * FAR_CLIPPING_PLANE))

\* the loop body when the cell at the ray's end holds no wall
CastAdvance ==
  /\ pc = "loop"
  /\ InsideFarClip
  /\ ~isWall(scene, findCellAtRayEnd(p1, p2))
  /\ p1' = p2
  /\ p2' = findRayIntersection(p1, p2)
  /\ UNCHANGED <<layout, scene, lookup, start, through, pc, gameVars, marcher>>

\* if (scene.isWall(cell)) break; return p2
CastHitWall ==
  /\ pc = "loop"
  /\ InsideFarClip
  /\ isWall(scene, findCellAtRayEnd(p1, p2))
  /\ pc' = "done"
  /\ UNCHANGED <<layout, scene, lookup, start, through, p1, p2, gameVars,
                 marcher>>

\* the while test fails; return p2
CastFarClip ==
  /\ pc = "loop"
  /\ ~InsideFarClip
  /\ pc' = "done"
  /\ UNCHANGED <<layout, scene, lookup, start, through, p1, p2, gameVars,
                 marcher>>

NextCast == CastCall \/ CastAdvance \/ CastHitWall \/ CastFarClip

SpecCast == InitCast /\ [][NextCast]_vars

\* the loop is sequential code: an enabled iteration is taken
SpecCastFair == SpecCast /\ WF_vars(NextCast)

(***************************************************************************)
(* The game: key handlers and frame                                        *)
(***************************************************************************)
MaxElapsedHalves == 2

KeyCodes == {"KeyW", "KeyS", "KeyA", "KeyD", "Space"}

\* a T-shaped room inside a border of walls: 3 open cells in a row and one
\* open cell below the middle one; some tiles of the border are the colour
\* names that stand in for textures that failed to load
RoomRows ==
  << <<W, W, W, W, W>>, <<W, N, N, N, B>>, <<B, W, N, W, W>>, <<W, W, G, W, W>> >>

GameLayouts == {RoomRows}

\* const player = new Player(scene.size().mul(new Vector2(0.5, 0.5)), Math.PI * 1.25):
\* the centre of the scene, heading into the quadrant of negative x and y
Init ==
  /\ layout \in GameLayouts
  /\ scene = SceneNew(layout)
  /\ lookup = NoLookup
  /\ marcher = NoMarcher
  /\ CastIdle
  /\ player = Player(Vector2(RMul(size(scene).x, Rat(1, 2)),
                             RMul(size(scene).y, Rat(1, 2))), 2)
  /\ movingForward = FALSE /\ movingBackward = FALSE
  /\ turningLeft = FALSE /\ turningRight = FALSE
  /\ frameLocals = NoFrame
  /\ goThere = NoCall
  /\ canvas = NoCanvas
  /\ keyLog = NoKeyLog
  /\ server = NoServer

\* case key: flag = true, behind if (!e.repeat)
KeyDownFlag(flag, key, code, repeat) ==
  IF ~repeat /\ code = key THEN TRUE ELSE flag

\* every key's release clears the flag
KeyUpFlag_AnyKey(flag, key, code, repeat) ==
  IF ~repeat THEN FALSE ELSE flag

\* case key: flag = false, behind if (!e.repeat)
KeyUpFlag(flag, key, code, repeat) ==
  IF ~repeat /\ code = key THEN FALSE ELSE flag

\* the keydown handler for the event e = [code, repeat]
keydownHandler(code, repeat) ==
  /\ movingForward' = KeyDownFlag(movingForward, "KeyW", code, repeat)
  /\ movingBackward' = KeyDownFlag(movingBackward, "KeyS", code, repeat)
  /\ turningLeft' = KeyDownFlag(turningLeft, "KeyA", code, repeat)
  /\ turningRight' = KeyDownFlag(turningRight, "KeyD", code, repeat)
  /\ UNCHANGED <<layout, scene, lookup, castVars, player, frameLocals, goThere,
                 canvas, marcher, server>>

\* the keyup handler for the event e = [code, repeat]
keyupHandler(code, repeat) ==
  /\ movingForward' = KeyUpFlag(movingForward, "KeyW", code, repeat)
  /\ movingBackward' = KeyUpFlag(movingBackward, "KeyS", code, repeat)
  /\ turningLeft' = KeyUpFlag(turningLeft, "KeyA", code, repeat)
  /\ turningRight' = KeyUpFlag(turningRight, "KeyD", code, repeat)
  /\ UNCHANGED <<layout, scene, lookup, castVars, player, frameLocals, goThere,
                 canvas, marcher, server>>

\* window.addEventListener("keydown", ...)
KeyDown ==
  \E code \in KeyCodes, repeat \in BOOLEAN :
    keydownHandler(code, repeat) /\ UNCHANGED keyLog

\* window.addEventListener("keyup", ...)
KeyUp ==
  \E code \in KeyCodes, repeat \in BOOLEAN :
    keyupHandler(code, repeat) /\ UNCHANGED keyLog

\* movement as frame computes it from the two movement flags
Movement(direction, forward, backward) ==
  Let(scale(angle(direction), I(PLAYER_SPEED)), LAMBDA movementStep :
    Let(IF forward THEN add(zero, movementStep) ELSE zero, LAMBDA ahead :
      IF backward THEN sub(ahead, movementStep) ELSE ahead))

\* rotationSpeed in quarter turns per second (Math.PI is two quarter turns)
RotationSpeed(left, right) ==
  (IF left THEN -2 ELSE 0) + (IF right THEN 2 ELSE 0)

\* the render pass is run before the player is moved
RenderedPlayer_BeforeMove(before, after) == before

\* renderGame(ctx, player, scene, showMinimap) is called last in frame, on the
\* player object as the updates above it have left it.  What the pass draws
\* from it is followed in SpecRender.
RenderedPlayer(before, after) == after

\* Frames are followed while the player is on the grid: a player that has
\* left it is not followed further.
OnGrid == contains(scene, mapFloor(player.position))

\* frame(timestamp) after a whole number of half seconds (a whole number of
\* quarter turns when turning)
Frame ==
  /\ OnGrid
  /\ \E halves \in 0..MaxElapsedHalves :
       \E moved \in {MovePlayer(scene, player.position,
                                Movement(player.direction, movingForward, movingBackward),
                                Rat(halves, 2))} :
         /\ player' = Player(moved.position,
                             (player.direction
                                + (RotationSpeed(turningLeft, turningRight) * halves) \div 2) % 4)
         /\ frameLocals' = [elapsedSeconds |-> Rat(halves, 2),
                             canX |-> moved.calls[1].result,
                             canY |-> moved.calls[2].result,
                             rendered |-> RenderedPlayer(player, player')]
  /\ UNCHANGED <<layout, scene, lookup, castVars, movingForward,
                 movingBackward, turningLeft, turningRight, goThere, canvas,
                 marcher,
                 keyLog, server>>

Next == KeyDown \/ KeyUp \/ Frame

Spec == Init /\ [][Next]_vars

(***************************************************************************)
(* The key handlers and frame, with the history of the key events kept     *)
(***************************************************************************)
\* a corridor of two open cells inside a border of walls
CorridorRows == << <<W, W, W, W>>, <<W, N, N, B>>, <<W, W, W, W>> >>

\* the log after an event of the given type ("keydown" or "keyup"): the
\* most recent non-repeat event of each key that has a flag
Logged(log, code, repeat, type) ==
  IF ~repeat /\ code \in FlagKeys THEN [log EXCEPT ![code] = type] ELSE log

InitKeys ==
  /\ layout = CorridorRows
  /\ scene = SceneNew(layout)
  /\ lookup = NoLookup
  /\ marcher = NoMarcher
  /\ CastIdle
  /\ player = Player(Vector2(RMul(size(scene).x, Rat(1, 2)),
                             RMul(size(scene).y, Rat(1, 2))), 2)
  /\ movingForward = FALSE /\ movingBackward = FALSE
  /\ turningLeft = FALSE /\ turningRight = FALSE
  /\ frameLocals = NoFrame
  /\ goThere = NoCall
  /\ canvas = NoCanvas
  /\ keyLog = NoKeyLog
  /\ server = NoServer

KeyDownLogged ==
  \E code \in KeyCodes, repeat \in BOOLEAN :
    keydownHandler(code, repeat) /\ keyLog' = Logged(keyLog, code, repeat, "keydown")

KeyUpLogged ==
  \E code \in KeyCodes, repeat \in BOOLEAN :
    keyupHandler(code, repeat) /\ keyLog' = Logged(keyLog, code, repeat, "keyup")

NextKeys == KeyDownLogged \/ KeyUpLogged \/ Frame

SpecKeys == InitKeys /\ [][NextKeys]_vars

(***************************************************************************)
(* canPlayerGoThere called on its own                                      *)
(***************************************************************************)
TargetSteps == 8

\* a scene with an open block of 3 x 3 cells, a short row and a lone wall
CollisionRows ==
  << <<N, N, N, W>>, <<N, N, N, N>>, <<N, N, N>>, <<W, N, B, N>> >>

\* the target positions: the points of a grid of 1 / TargetSteps over the
\* scene and half a cell around it
Targets ==
  {Vector2(Rat(i, TargetSteps), Rat(j, TargetSteps)) :
     i \in (-TargetSteps \div 2)..(4 * TargetSteps + TargetSteps \div 2),
     j \in (-TargetSteps \div 2)..(4 * TargetSteps + TargetSteps \div 2)}

InitCollision ==
  /\ layout = CollisionRows
  /\ scene = SceneNew(layout)
  /\ lookup = NoLookup
  /\ marcher = NoMarcher
  /\ CastIdle
  /\ GameIdle

\* canPlayerGoThere(scene, newPosition)
GoThereCall ==
  /\ goThere = NoCall
  /\ \E newPosition \in Targets : goThere' = Call(scene, newPosition)
  /\ UNCHANGED <<layout, scene, lookup, castVars, player, movingForward,
                 movingBackward, turningLeft, turningRight, frameLocals, canvas,
                 marcher,
                 keyLog, server>>

NextCollision == GoThereCall

SpecCollision == InitCollision /\ [][NextCollision]_vars

(***************************************************************************)
(* Scene construction and lookups                                          *)
(***************************************************************************)
MaxRows == 2

MaxRowLen == 2

\* the rows of at most MaxRowLen tiles, each tile absent or a wall
JaggedRows == UNION {[1..n -> {N, W}] : n \in 0..MaxRowLen}

JaggedLayouts == UNION {[1..n -> JaggedRows] : n \in 0..MaxRows}

\* the integer coordinates looked up, some of them outside every grid
LookupCoordinates ==
  {IVec(x, y) : x \in -1..(MaxRowLen + 1), y \in -1..(MaxRows + 1)}

InitScene ==
  /\ layout = << >>
  /\ scene = SceneNew(layout)
  /\ lookup = NoLookup
  /\ marcher = NoMarcher
  /\ CastIdle
  /\ GameIdle

\* new Scene(rows), once
SceneConstruct ==
  /\ layout = << >>
  /\ lookup = NoLookup
  /\ layout' \in JaggedLayouts
  /\ scene' = SceneNew(layout')
  /\ lookup' = NoLookup
  /\ UNCHANGED <<castVars, gameVars, marcher>>

\* scene.contains(p), scene.getWall(p) and scene.isWall(p) for one coordinate
SceneLookup ==
  /\ lookup = NoLookup
  /\ \E p \in LookupCoordinates :
    /\ lookup' = [p |-> p, contains |-> contains(scene, p),
                  tile |-> getWall(scene, p), wall |-> isWall(scene, p),
                  reads |-> getWallReads(scene, p)]
    /\ UNCHANGED <<layout, scene, castVars, gameVars, marcher>>

NextScene == SceneConstruct \/ SceneLookup

SpecScene == InitScene /\ [][NextScene]_vars

(***************************************************************************)
(* renderGame(ctx, player, scene, showMinimap), one column per step        *)
(***************************************************************************)
\* a hall deeper than the far clipping plane, with a single wall tile at the
\* cell (9, 6)
HallRows ==
  [y \in 1..(FAR_CLIPPING_PLANE + 1) |->
     [x \in 1..11 |-> IF x = 10 /\ y = 7 THEN W ELSE N]]

RenderLayouts == {RoomRows, HallRows}

\* where the player stands when the scene is rendered
RenderPositions(rows) ==
  IF rows = HallRows
  THEN {Vector2(I(1), Rat(1, 2)), Vector2(Rat(23, 25), Rat(11, 25)),
        Vector2(I(5), Rat(7, 2))}
  ELSE {Vector2(Rat(5, 2), I(2)), Vector2(Rat(3, 2), Rat(3, 2)),
        Vector2(Rat(33, 10), Rat(13, 10)), Vector2(Rat(13, 5), Rat(17, 10))}

InitRender ==
  /\ layout = << >>
  /\ scene = SceneNew(layout)
  /\ lookup = NoLookup
  /\ marcher = NoMarcher
  /\ CastIdle
  /\ GameIdle

\* renderGame is called for a player in a scene; renderScene computes
\* player.fovRange() before its loop
RenderGameCall ==
  /\ canvas.pc \in {"idle", "done"}
  /\ pc = "idle"
  /\ layout' \in RenderLayouts
  /\ scene' = SceneNew(layout')
  /\ \E position \in RenderPositions(layout'), direction \in 0..3 :
        player' = Player(position, direction)
  /\ \E showMinimap \in BOOLEAN :
        canvas' = [pc |-> "columns", showMinimap |-> showMinimap,
                   fov |-> fovRange(player'), screenX |-> 0,
                   columns |-> << >>, minimap |-> NoMinimap]
  /\ UNCHANGED <<lookup, castVars, movingForward, movingBackward, turningLeft,
                 turningRight, frameLocals, goThere, marcher,
                 keyLog, server>>

\* for (let screenX = 0; screenX < SCREEN_WIDTH; ++screenX):
\* castRay(scene, player.position, leftRay.interpolate(rightRay, ...)) is called
RenderCastCall ==
  /\ canvas.pc = "columns"
  /\ canvas.screenX < SCREEN_WIDTH
  /\ pc = "idle"
  /\ start' = player.position
  /\ through' = ThroughPoint(canvas.fov[1], canvas.fov[2], canvas.screenX)
  /\ p1' = start'
  /\ p2' = through'
  /\ pc' = "loop"
  /\ UNCHANGED <<layout, scene, lookup, gameVars, marcher>>

\* the rest of the loop body once castRay has returned p2, and ++screenX
RenderColumn ==
  /\ canvas.pc = "columns"
  /\ pc = "done"
  /\ canvas' = [canvas EXCEPT
                  !.columns = Append(@, renderColumn(scene, player, canvas.screenX,
                                                     through, p2)),
                  !.screenX = @ + 1]
  /\ pc' = "idle"
  /\ UNCHANGED <<layout, scene, lookup, start, through, p1, p2, player,
                 movingForward, movingBackward, turningLeft, turningRight,
                 frameLocals, goThere, marcher,
                 keyLog, server>>

\* if (showMinimap) { renderMinimap(ctx, player, ..., scene) }
RenderMinimap ==
  /\ canvas.pc = "columns"
  /\ canvas.screenX = SCREEN_WIDTH
  /\ canvas.showMinimap
  /\ \E after \in {renderMinimap(scene, player)} :
        /\ canvas' = [canvas EXCEPT !.pc = "done", !.minimap = after.minimap]
        /\ player' = after.player
        /\ scene' = after.scene
  /\ UNCHANGED <<layout, lookup, castVars, movingForward, movingBackward,
                 turningLeft, turningRight, frameLocals, goThere, marcher,
                 keyLog, server>>

\* renderGame returns without a minimap
RenderReturn ==
  /\ canvas.pc = "columns"
  /\ canvas.screenX = SCREEN_WIDTH
  /\ ~canvas.showMinimap
  /\ canvas' = [canvas EXCEPT !.pc = "done"]
  /\ UNCHANGED <<layout, scene, lookup, castVars, player, movingForward,
                 movingBackward, turningLeft, turningRight, frameLocals, goThere,
                 marcher,
                 keyLog, server>>

NextRender ==
  \/ RenderGameCall
  \/ RenderCastCall \/ CastAdvance \/ CastHitWall \/ CastFarClip
  \/ RenderColumn
  \/ RenderMinimap
  \/ RenderReturn

SpecRender == InitRender /\ [][NextRender]_vars

(***************************************************************************)
(* alignToGrid, findCellAtRayEnd and findRayIntersection called on their   *)
(* own                                                                     *)
(***************************************************************************)
MaxSnapCell == 2

\* offsets from a grid line: on it, within EPS of it on either side, at EPS
\* and beyond EPS from it, and the middle of the cell
SnapOffsets ==
  {I(0), Rat(1, 2 * EPS_DENOMINATOR), EPS, Rat(2, EPS_DENOMINATOR),
   Rat(1, 2), RSub(I(1), Rat(2, EPS_DENOMINATOR)), RSub(I(1), EPS),
   RSub(I(1), Rat(1, 2 * EPS_DENOMINATOR))}

SnapCoordinates == {RAdd(I(k), f) : k \in -1..MaxSnapCell, f \in SnapOffsets}

SnapDeltas == {Rat(-3, 2), I(-1), I(0), Rat(1, 2), I(2)}

\* ends of rays on and off the grid lines, and the points they come from
MarcherEnds ==
  Origins \cup {Vector2(RAdd(I(1), Rat(1, 2 * EPS_DENOMINATOR)), I(1)),
                Vector2(I(2), RSub(I(1), Rat(1, 2 * EPS_DENOMINATOR)))}

InitMarcher ==
  /\ layout = << >>
  /\ scene = SceneNew(layout)
  /\ lookup = NoLookup
  /\ marcher = NoMarcher
  /\ CastIdle
  /\ GameIdle

\* alignToGrid(x, dx)
AlignToGridCall ==
  /\ marcher = NoMarcher
  /\ \E x \in SnapCoordinates, dx \in SnapDeltas :
       marcher' = [NoMarcher EXCEPT !.fn = "alignToGrid", !.x = x, !.dx = dx,
                                    !.number = alignToGrid(x, dx)]
  /\ UNCHANGED <<layout, scene, lookup, castVars, gameVars>>

\* findCellAtRayEnd(p1, p2) for p2 = p1 + direction / 2
FindCellAtRayEndCall ==
  /\ marcher = NoMarcher
  /\ \E end \in MarcherEnds, dir \in Directions :
       marcher' = [NoMarcher EXCEPT
                     !.fn = "findCellAtRayEnd",
                     !.p1 = sub(end, scale(dir, Rat(1, 2))), !.p2 = end,
                     !.point = findCellAtRayEnd(sub(end, scale(dir, Rat(1, 2))), end)]
  /\ UNCHANGED <<layout, scene, lookup, castVars, gameVars>>

\* findRayIntersection(p1, p2) for p2 = p1 + direction / 2
FindRayIntersectionCall ==
  /\ marcher = NoMarcher
  /\ \E end \in Origins, dir \in Directions :
       marcher' = [NoMarcher EXCEPT
                     !.fn = "findRayIntersection",
                     !.p1 = sub(end, scale(dir, Rat(1, 2))), !.p2 = end,
                     !.point = findRayIntersection(sub(end, scale(dir, Rat(1, 2))), end)]
  /\ UNCHANGED <<layout, scene, lookup, castVars, gameVars>>

NextMarcher == AlignToGridCall \/ FindCellAtRayEndCall \/ FindRayIntersectionCall

SpecMarcher == InitMarcher /\ [][NextMarcher]_vars

(***************************************************************************)
(* The hot-reload server of the development tooling: the WebSocketServer   *)
(* connection handler, the close handler of each socket and the watchFile  *)
(* listener.  Each handler runs to completion on the one thread of Node.   *)
(***************************************************************************)
MaxSockets == 3

MaxReloads == 3

\* the socket objects
Sockets == 1..MaxSockets

\* Array.prototype.indexOf: the first index (from 0) of x in arr, or -1
indexOf(arr, x) ==
  IF \E i \in 1..Len(arr) : arr[i] = x
  THEN (CHOOSE i \in 1..Len(arr) : arr[i] = x /\ \A j \in 1..(i - 1) : arr[j] # x) - 1
  ELSE -1

\* the array after arr.splice(startAt, deleteCount): a negative startAt
\* counts from the end, and both arguments are clamped to the array
spliceFrom(arr, from, deleteCount) ==
  Let(IF deleteCount < 0 THEN 0
      ELSE IF deleteCount > Len(arr) - from THEN Len(arr) - from
      ELSE deleteCount,
      LAMBDA count :
        SubSeq(arr, 1, from) \o SubSeq(arr, from + count + 1, Len(arr)))

\* splice(startAt) without a delete count: everything from startAt on goes
splice_ToEnd(arr, startAt, deleteCount) ==
  spliceFrom(arr,
             IF startAt < 0
             THEN (IF Len(arr) + startAt < 0 THEN 0 ELSE Len(arr) + startAt)
             ELSE (IF startAt > Len(arr) THEN Len(arr) ELSE startAt),
             Len(arr))

splice(arr, startAt, deleteCount) ==
  spliceFrom(arr,
             IF startAt < 0
             THEN (IF Len(arr) + startAt < 0 THEN 0 ELSE Len(arr) + startAt)
             ELSE (IF startAt > Len(arr) THEN Len(arr) ELSE startAt),
             deleteCount)

\* how many times the socket is in the list
TimesIn(arr, ws) == Cardinality({i \in 1..Len(arr) : arr[i] = ws})

InitReload ==
  /\ layout = << >>
  /\ scene = SceneNew(layout)
  /\ lookup = NoLookup
  /\ marcher = NoMarcher
  /\ CastIdle
  /\ GameIdle

\* wss.on("connection", (ws) => { webSockets.push(ws); ws.on("close", ...) })
\* for a client that connects
Connection ==
  /\ \E ws \in Sockets \ server.open :
       server' = [webSockets |-> Append(server.webSockets, ws),
                  open |-> server.open \cup {ws},
                  inbox |-> [s \in server.open \cup {ws} |->
                               IF s = ws THEN 0 ELSE server.inbox[s]]]
  /\ UNCHANGED <<layout, scene, lookup, castVars, player, movingForward,
                 movingBackward, turningLeft, turningRight, frameLocals, goThere,
                 canvas, marcher, keyLog>>

\* ws.on("close", () => { webSockets.splice(webSockets.indexOf(ws), 1) })
\* for a connection that closes
SocketClose ==
  /\ \E ws \in server.open :
       server' = [webSockets |-> splice(server.webSockets,
                                        indexOf(server.webSockets, ws), 1),
                  open |-> server.open \ {ws},
                  inbox |-> [s \in server.open \ {ws} |-> server.inbox[s]]]
  /\ UNCHANGED <<layout, scene, lookup, castVars, player, movingForward,
                 movingBackward, turningLeft, turningRight, frameLocals, goThere,
                 canvas, marcher, keyLog>>

\* the watchFile listener of a watched file:
\* webSockets.forEach((socket) => socket.send("reload"))
FileChanged ==
  /\ \A s \in server.open : server.inbox[s] < MaxReloads
  /\ server' = [server EXCEPT
                  !.inbox = [s \in server.open |->
                               server.inbox[s] + TimesIn(server.webSockets, s)]]
  /\ UNCHANGED <<layout, scene, lookup, castVars, player, movingForward,
                 movingBackward, turningLeft, turningRight, frameLocals, goThere,
                 canvas, marcher, keyLog>>

NextReload == Connection \/ SocketClose \/ FileChanged

SpecReload == InitReload /\ [][NextReload]_vars

(***************************************************************************)
(* Geometry used to state the claims (not part of the program)             *)
(***************************************************************************)
RMin(a, b) == Val({IF RLt(y, x) THEN y ELSE x : x \in {a}, y \in {b}})

\* the cells of the scene's grid
SceneCells(s) ==
  {IVec(x, y) : x \in 0..(Ceil(s.width) - 1), y \in 0..(Ceil(s.height) - 1)}

WallCells(s) == {c \in SceneCells(s) : isWall(s, c)}

\* the parameter interval <<lo, hi>>, cut to [0, 1], on which a0 + t * d0
\* lies strictly between k and k + 1 (empty when lo >= hi)
TRange(a0, d0, k) ==
  IF d0.n > 0
  THEN <<RMax(I(0), RDiv(RSub(k, a0), d0)), RMin(I(1), RDiv(RSub(RAdd(k, I(1)), a0), d0))>>
  ELSE IF d0.n < 0
  THEN <<RMax(I(0), RDiv(RSub(RAdd(k, I(1)), a0), d0)), RMin(I(1), RDiv(RSub(k, a0), d0))>>
  ELSE IF RLt(k, a0) /\ RLt(a0, RAdd(k, I(1))) THEN <<I(0), I(1)>>
  ELSE <<I(1), I(0)>>

\* the segment from a to b runs through the interior of cell c
PassesThrough(a, b, c) ==
  LET d  == sub(b, a)
      tx == TRange(a.x, d.x, c.x)
      ty == TRange(a.y, d.y, c.y)
  IN  a # b /\ RLt(RMax(tx[1], ty[1]), RMin(tx[2], ty[2]))

\* p lies in the closed unit square of cell c
InClosedCell(p, c) ==
  /\ RLe(c.x, p.x) /\ RLe(p.x, RAdd(c.x, I(1)))
  /\ RLe(c.y, p.y) /\ RLe(p.y, RAdd(c.y, I(1)))

\* p lies on the ray from a through b, at or beyond b
OnRayBeyond(a, b, p) ==
  LET d == sub(b, a)
      e == sub(p, b)
  IN  /\ RSub(RMul(d.x, e.y), RMul(d.y, e.x)) = I(0)
      /\ RLe(I(0), dot(d, e))

\* the grid line of cell c on the side a ray of direction component d meets first
NearSide(k, d) == IF d.n > 0 THEN k ELSE RAdd(k, I(1))

\* |v - k| < 1 + EPS: v is within EPS of the extent [k, k + 1]
WithinEps(v, k) == RLe(RSub(k, EPS), v) /\ RLe(v, RAdd(RAdd(k, I(1)), EPS))

\* p is on the boundary of cell c, on the side that a ray of direction d enters
OnApproachSide(p, c, d) ==
  \/ d.x.n # 0 /\ p.x = NearSide(c.x, d.x) /\ WithinEps(p.y, c.y)
  \/ d.y.n # 0 /\ p.y = NearSide(c.y, d.y) /\ WithinEps(p.x, c.x)

HitCell == findCellAtRayEnd(p1, p2)

FarSquared == I(FAR_CLIPPING_PLANE * FAR_CLIPPING_PLANE)

(***************************************************************************)
(* Claims on castRay and the marcher                                       *)
(***************************************************************************)

\* C1: every castRay call with origin # throughPoint returns: the loop ends
\* after finitely many marcher steps, in scenes with and without walls.
C1_CastRayTerminates == <>(pc = "done")

\* C1 witness: a cast of an open scene has returned after marching past the
\* far clipping distance.
C1_Witness ==
  /\ pc = "done"
  /\ WallCells(scene) = {}
  /\ ~InsideFarClip
  /\ p1 # start /\ p1 # through

\* C2: each marcher step moves the ray's end strictly farther from the origin:
\* the step never returns p2 itself and never stays on the line it stands on.
C2_MarcherAdvances ==
  [][(pc = "loop" /\ pc' = "loop")
       => RLt(sqrDistanceTo(start, p2), sqrDistanceTo(start, p2'))]_vars

\* C2 witness: the marcher has stepped off a point that lay exactly on a
\* vertical grid line and is farther out.
C2_Witness ==
  /\ pc = "loop"
  /\ p1 # start
  /\ IsInt(p1.x)
  /\ RLt(sqrDistanceTo(start, p1), sqrDistanceTo(start, p2))

C4_Original ==
  (pc = "done" /\ isWall(scene, HitCell) /\ ~InClosedCell(start, HitCell))
    => OnApproachSide(p2, HitCell, sub(through, start))

\* C4 amended: when throughPoint itself is not classified into a wall cell,
\* the point returned for a wall hit lies on the ray, has one coordinate
\* exactly on the grid line of the hit cell on the approach side, and its
\* other coordinate within EPS of the cell's extent.
C4_HitOnCellBoundary ==
  (pc = "done" /\ isWall(scene, HitCell)
     /\ ~isWall(scene, findCellAtRayEnd(start, through)))
    => /\ OnApproachSide(p2, HitCell, sub(through, start))
       /\ OnRayBeyond(start, through, p2)

\* C4 witness: a wall was hit by a ray that is not parallel to an axis and
\* travels in the negative x direction.
C4_Witness ==
  /\ pc = "done"
  /\ isWall(scene, HitCell)
  /\ p2 # through
  /\ sub(through, start).x.n < 0
  /\ sub(through, start).y.n # 0

\* C5: on the row [empty, empty, empty, wall, empty], the ray from (0.5, 0.5)
\* aimed along (1, 0) (its throughPoint before or on the wall's face) returns
\* exactly (3, 0.5).
C5_ExampleHit ==
  (/\ pc = "done"
   /\ layout = ExampleRow
   /\ start = Vector2(Rat(1, 2), Rat(1, 2))
   /\ through.y = Rat(1, 2)
   /\ RLt(start.x, through.x) /\ RLe(through.x, I(3)))
    => p2 = Vector2(I(3), Rat(1, 2))

\* C5 witness: the example cast with throughPoint = origin + (1, 0) returned.
C5_Witness ==
  /\ pc = "done"
  /\ layout = ExampleRow
  /\ start = Vector2(Rat(1, 2), Rat(1, 2))
  /\ through = Vector2(Rat(3, 2), Rat(1, 2))
  /\ p2 = Vector2(I(3), Rat(1, 2))

FootprintSpan(v) ==
  Let(<<RSub(v, RMul(PLAYER_SIZE, Rat(1, 2))), RAdd(v, RMul(PLAYER_SIZE, Rat(1, 2)))>>,
      LAMBDA box :
        {k \in (Floor(v) - 1)..(Floor(v) + 1) :
           RLe(I(k), box[2]) /\ RLt(box[1], I(k + 1))})

FootprintCells(p) ==
  Let(p, LAMBDA q : {IVec(x, y) : x \in FootprintSpan(q.x), y \in FootprintSpan(q.y)})

HoldsTile(s, c) == getWall(s, c) \notin {Null, Undefined}

FootprintOverlapsWall(s, p) == \E c \in FootprintCells(p) : HoldsTile(s, c)

\* p lies in the centre cell of a 3 x 3 block of cells none of which is a wall
InOpenBlockCentre(s, p) ==
  \A dx \in -1..1, dy \in -1..1 :
    ~HoldsTile(s, IVec(Floor(p.x) + dx, Floor(p.y) + dy))

\* C7: canPlayerGoThere returns false for every target whose footprint box
\* overlaps a wall cell, and true for every target inside the centre cell of a
\* completely open 3 x 3 block of cells, whatever its fractional offset.
C7_CanGoThereIffFootprintFree ==
  goThere # NoCall =>
    /\ FootprintOverlapsWall(scene, goThere.newPosition) => ~goThere.result
    /\ InOpenBlockCentre(scene, goThere.newPosition) => goThere.result

\* C7 witness: a target was refused whose cell and the cells beside and above
\* it are open: its footprint reaches a wall only across a corner.
C7_Witness ==
  /\ goThere # NoCall
  /\ ~goThere.result
  /\ LET c == mapFloor(goThere.newPosition)
     IN  /\ ~HoldsTile(scene, c)
         /\ ~HoldsTile(scene, IVec(c.x.n - 1, c.y.n))
         /\ ~HoldsTile(scene, IVec(c.x.n + 1, c.y.n))
         /\ ~HoldsTile(scene, IVec(c.x.n, c.y.n - 1))
         /\ ~HoldsTile(scene, IVec(c.x.n, c.y.n + 1))

\* C8: the footprint box of the player's position never overlaps a wall cell,
\* whatever keys are pressed and however long the frames take.
C8_PlayerStaysOutOfWalls == ~FootprintOverlapsWall(scene, player.position)

\* C8 witness: the player has left the start and stands where its footprint
\* touches a wall's face without overlapping it, and the last frame's move
\* along x was refused.
C8_Witness ==
  /\ player.position # Vector2(RMul(size(scene).x, Rat(1, 2)), RMul(size(scene).y, Rat(1, 2)))
  /\ ~frameLocals.canX
  /\ contains(scene, mapFloor(player.position))
  /\ \E c \in WallCells(scene) :
       RLt(sqrDistanceTo(player.position, Vector2(RAdd(c.x, Rat(1, 2)), RAdd(c.y, Rat(1, 2)))),
           I(1))

\* C9: a frame resolves the move per axis: x is updated first if (newX, old y)
\* is free; then y is updated if (updated x, newY) is free.  So when one axis is
\* blocked and the other free, the free coordinate changes and only the
\* blocked one keeps its value.
C9_MovementPerAxis ==
  [][(frameLocals' # frameLocals \/ player' # player) =>
       \E old \in {player.position}, new \in {player'.position},
          step \in {scale(Movement(player.direction, movingForward, movingBackward),
                          frameLocals'.elapsedSeconds)} :
         \E newX \in {RAdd(old.x, step.x)}, newY \in {RAdd(old.y, step.y)} :
           /\ frameLocals'.canX = ~FootprintOverlapsWall(scene, Vector2(newX, old.y))
           /\ new.x = IF frameLocals'.canX THEN newX ELSE old.x
           /\ frameLocals'.canY = ~FootprintOverlapsWall(scene, Vector2(new.x, newY))
           /\ new.y = IF frameLocals'.canY THEN newY ELSE old.y
           /\ (~frameLocals'.canX /\ frameLocals'.canY /\ newY # old.y)
                => (new.x = old.x /\ new.y # old.y)
           /\ (frameLocals'.canX /\ ~frameLocals'.canY /\ newX # old.x)
                => (new.x # old.x /\ new.y = old.y)]_vars

\* C9 witness: a frame with a diagonal move (one movement key down, time
\* elapsed) was refused on x and accepted on y: the player slid along the wall.
C9_Witness ==
  /\ movingForward # movingBackward
  /\ ~frameLocals.canX
  /\ frameLocals.canY
  /\ player.position.y # RMul(size(scene).y, Rat(1, 2))

RECURSIVE LongestRow(_)
LongestRow(rows) ==
  IF rows = << >> THEN 0
  ELSE LET rest == LongestRow(Tail(rows))
       IN  IF Len(Head(rows)) > rest THEN Len(Head(rows)) ELSE rest

\* C10: the Scene built from a list of rows has size() = (maximum row length,
\* number of rows); getWall returns the original tile inside a row's original
\* length and no tile from the row's length up to the width.
C10_JaggedRoundTrip ==
  layout # << >> =>
  /\ size(scene) = IVec(LongestRow(layout), Len(layout))
  /\ (lookup # NoLookup /\ lookup.p.y.n \in 0..(Len(layout) - 1) /\ lookup.p.x.n >= 0)
       => LET row == layout[lookup.p.y.n + 1]
          IN  /\ lookup.p.x.n < Len(row) => lookup.tile = row[lookup.p.x.n + 1]
              /\ (Len(row) <= lookup.p.x.n /\ lookup.p.x.n < LongestRow(layout))
                   => lookup.tile \in {Null, Undefined}

(***************************************************************************)
(* Claims C11 to C20                                                       *)
(***************************************************************************)
\* p lies outside the grid of width s.width and height s.height
OutsideGrid(s, p) ==
  \/ RLt(p.x, I(0)) \/ RLe(s.width, p.x)
  \/ RLt(p.y, I(0)) \/ RLe(s.height, p.y)

\* C11: a lookup at an integer coordinate outside the grid (x < 0, x >= width,
\* y < 0 or y >= height) returns undefined from getWall and false from isWall,
\* and getWall reads the tile array only when contains(p) holds.
C11_OutsideLookupIsNoTile ==
  /\ OutsideGrid(scene, lookup.p) =>
        /\ lookup.tile = Undefined
        /\ ~lookup.wall
        /\ lookup.reads = {}
  /\ lookup.reads # {} => lookup.contains

\* C11 witness: the coordinate (-1, 1) was looked up in a scene of two rows
\* whose cell (1, 0) is a wall: the flat index 1 * width - 1 of that
\* coordinate is the index of the wall.
C11_Witness ==
  /\ Len(layout) = 2
  /\ scene.width = I(2)
  /\ isWall(scene, IVec(1, 0))
  /\ lookup.p = IVec(-1, 1)
  /\ lookup.tile = Undefined

\* C12: fovRange returns <<front - perp, front + perp>>, where front =
\* position + NEAR_CLIPPING_PLANE * forward and perp is forward turned by +90
\* degrees, (-forward.y, forward.x), of length tan(FOV / 2) *
\* NEAR_CLIPPING_PLANE: the midpoint of the two points is front, the segment
\* between them is perpendicular to forward, and both are equally far from
\* the player.
C12_FovRangeEdges ==
  canvas.pc # "idle" =>
    LET forward == angle(player.direction)
        reach == RMul(TanHalfFOV, NEAR_CLIPPING_PLANE)
        front == Vector2(RAdd(player.position.x, RMul(NEAR_CLIPPING_PLANE, forward.x)),
                         RAdd(player.position.y, RMul(NEAR_CLIPPING_PLANE, forward.y)))
        perp == Vector2(RMul(RNeg(forward.y), reach), RMul(forward.x, reach))
        leftEdge == canvas.fov[1]
        rightEdge == canvas.fov[2]
    IN  /\ sqrLength(perp) = RMul(reach, reach)
        /\ leftEdge = Vector2(RSub(front.x, perp.x), RSub(front.y, perp.y))
        /\ rightEdge = Vector2(RAdd(front.x, perp.x), RAdd(front.y, perp.y))
        /\ RMul(RAdd(leftEdge.x, rightEdge.x), Rat(1, 2)) = front.x
        /\ RMul(RAdd(leftEdge.y, rightEdge.y), Rat(1, 2)) = front.y
        /\ dot(sub(rightEdge, leftEdge), forward) = I(0)
        /\ sqrDistanceTo(player.position, leftEdge)
             = sqrDistanceTo(player.position, rightEdge)

\* C12 witness: a render pass has taken the edges of a player who looks into
\* the quadrant of negative x and y, and the two edges differ.
C12_Witness ==
  /\ canvas.pc = "done"
  /\ player.direction = 2
  /\ canvas.fov[1] # canvas.fov[2]
  /\ canvas.fov[1] # zero

\* the two points differ by at most EPS in each coordinate
WithinTolerance(a, b) ==
  /\ RLe(RAbs(RSub(a.x, b.x)), EPS)
  /\ RLe(RAbs(RSub(a.y, b.y)), EPS)

\* the point a + (b - a) * k / n
AlongSegment(a, b, k, n) ==
  Vector2(RAdd(a.x, RMul(RSub(b.x, a.x), Rat(k, n))),
          RAdd(a.y, RMul(RSub(b.y, a.y), Rat(k, n))))

\* C13 as stated: the throughPoint of column 0 equals the first edge point of
\* fovRange and the throughPoint of column SCREEN_WIDTH - 1 equals the second
\* edge point, within tolerance.
C13_Original ==
  \A i \in 1..Len(canvas.columns) :
    /\ canvas.columns[i].screenX = 0 =>
          WithinTolerance(canvas.columns[i].throughPoint, canvas.fov[1])
    /\ canvas.columns[i].screenX = SCREEN_WIDTH - 1 =>
          WithinTolerance(canvas.columns[i].throughPoint, canvas.fov[2])

\* C13 amended: the throughPoint of column x is left + (right - left) * x /
\* SCREEN_WIDTH: column 0 goes through the first edge point, and column
\* SCREEN_WIDTH - 1 goes through the point one column step,
\* (right - left) / SCREEN_WIDTH, short of the second edge point, which no
\* column reaches.
C13_ColumnsSpanWedge ==
  \A i \in 1..Len(canvas.columns) :
    LET column == canvas.columns[i]
        leftRay == canvas.fov[1]
        rightRay == canvas.fov[2]
    IN  /\ column.screenX = i - 1
        /\ column.throughPoint
             = AlongSegment(leftRay, rightRay, column.screenX, SCREEN_WIDTH)
        /\ column.screenX = 0 => column.throughPoint = leftRay
        /\ column.screenX = SCREEN_WIDTH - 1 =>
             /\ sub(rightRay, column.throughPoint)
                  = AlongSegment(zero, sub(rightRay, leftRay), 1, SCREEN_WIDTH)
             /\ column.throughPoint # rightRay
        /\ column.throughPoint # rightRay

\* C13 witness: every column of a pass has been rendered, the first through
\* the first edge point.
C13_Witness ==
  /\ Len(canvas.columns) = SCREEN_WIDTH
  /\ canvas.columns[1].throughPoint = canvas.fov[1]
  /\ canvas.columns[SCREEN_WIDTH].screenX = SCREEN_WIDTH - 1
  /\ canvas.fov[1] # canvas.fov[2]

\* the column whose ray runs along the view direction (there is one when
\* SCREEN_WIDTH is even)
CentreColumn == SCREEN_WIDTH \div 2

\* q lies straight behind the player pl: pl.position = q + k * forward, k > 0
StraightBehind(q, pl) ==
  LET forward == angle(pl.direction)
      back == sub(pl.position, q)
  IN  /\ RMul(back.x, forward.y) = RMul(back.y, forward.x)
      /\ RLt(I(0), RAdd(RMul(back.x, forward.x), RMul(back.y, forward.y)))

\* the centre column as renderScene draws it for the player standing at q
CentreColumnFrom(q) ==
  Let(Player(q, player.direction), LAMBDA pl :
  Let(fovRange(pl), LAMBDA fov :
  Let(ThroughPoint(fov[1], fov[2], CentreColumn), LAMBDA throughPoint :
    renderColumn(scene, pl, CentreColumn, throughPoint,
                 castRay(scene, q, throughPoint)))))

\* the strips of a drawn column are SCREEN_HEIGHT / depth high before
\* rounding, depth being (ray - position) . forward
HeightFromDepth(column) ==
  LET forward == angle(player.direction)
      depth == RAdd(RMul(RSub(column.ray.x, player.position.x), forward.x),
                    RMul(RSub(column.ray.y, player.position.y), forward.y))
  IN  \A k \in 1..Len(column.commands) :
        /\ RMul(column.commands[k].wallHeight, depth) = I(SCREEN_HEIGHT)
        /\ column.commands[k].rect.h = Ceil(column.commands[k].wallHeight)

\* the positions straight behind the player from which the centre column
\* ends in the same wall tile
FartherPositions(column) ==
  {q \in RenderPositions(layout) :
     /\ StraightBehind(q, player)
     /\ CentreColumnFrom(q).hitCellCoordinates = column.hitCellCoordinates
     /\ CentreColumnFrom(q).commands # << >>}

\* the columns drawn straight ahead onto a wall tile
AheadColumns ==
  {i \in 1..Len(canvas.columns) :
     /\ 2 * CentreColumn = SCREEN_WIDTH
     /\ canvas.columns[i].screenX = CentreColumn
     /\ canvas.columns[i].commands # << >>}

\* C14 as stated: the strip height is SCREEN_HEIGHT / depth with depth =
\* (hitPoint - position) . forward, and for a wall tile straight ahead every
\* increase of the player's distance strictly decreases the height of the
\* strip that is drawn.
C14_Original ==
  /\ \A i \in 1..Len(canvas.columns) : HeightFromDepth(canvas.columns[i])
  /\ \A i \in AheadColumns :
       \A q \in FartherPositions(canvas.columns[i]) :
         CentreColumnFrom(q).commands[1].rect.h
           < canvas.columns[i].commands[1].rect.h

\* C14 amended: wallHeight = SCREEN_HEIGHT / depth with depth =
\* (hitPoint - position) . forward strictly decreases with every increase of
\* the player's distance from a wall tile straight ahead; the strip drawn is
\* Math.ceil(wallHeight) high, which never increases with the distance.
C14_StripHeightFromDepth ==
  /\ \A i \in 1..Len(canvas.columns) : HeightFromDepth(canvas.columns[i])
  /\ \A i \in AheadColumns :
       \A q \in FartherPositions(canvas.columns[i]) :
         /\ RLt(CentreColumnFrom(q).commands[1].wallHeight,
                canvas.columns[i].commands[1].wallHeight)
         /\ CentreColumnFrom(q).commands[1].rect.h
              <= canvas.columns[i].commands[1].rect.h

\* C14 witness: the centre column has been drawn onto a wall tile straight
\* ahead, and from a position farther back the strip of the same tile is
\* strictly lower.
C14_Witness ==
  \E i \in AheadColumns :
    \E q \in FartherPositions(canvas.columns[i]) :
      CentreColumnFrom(q).commands[1].rect.h
        < canvas.columns[i].commands[1].rect.h

\* C15: renderMinimap is read-only: the step in which the minimap is drawn
\* leaves the player's position and direction and every tile of the scene as
\* they were.
C15_MinimapReadOnly ==
  [][(canvas'.minimap.drawn /\ ~canvas.minimap.drawn) =>
       /\ player'.position = player.position
       /\ player'.direction = player.direction
       /\ scene' = scene
       /\ layout' = layout]_vars

\* C15 witness: the minimap of a scene with image tiles has been drawn around
\* a player who does not stand at the origin.
C15_Witness ==
  /\ canvas.pc = "done"
  /\ canvas.minimap.drawn
  /\ canvas.minimap.tiles # {}
  /\ canvas.minimap.player = sub(player.position, Vector2(Rat(1, 4), Rat(1, 4)))
  /\ player.position # zero

\* a key handler has run: one of the four key flags has changed
FlagsChanged ==
  <<movingForward, movingBackward, turningLeft, turningRight>>'
    # <<movingForward, movingBackward, turningLeft, turningRight>>

LeastIntegerAtLeast(n, v) == IsInt(n) /\ RLe(v, n) /\ RLt(RSub(n, I(1)), v)

\* n is the least integer that is > v
LeastIntegerAbove(n, v) == IsInt(n) /\ RLt(v, n) /\ RLe(RSub(n, I(1)), v)

\* n is the greatest integer that is <= v
GreatestIntegerAtMost(n, v) == IsInt(n) /\ RLe(n, v) /\ RLt(v, RAdd(n, I(1)))

\* n is the greatest integer that is < v
GreatestIntegerBelow(n, v) == IsInt(n) /\ RLt(n, v) /\ RLe(v, RAdd(n, I(1)))

\* C17 as stated: alignToGrid(x, dx) is the next integer strictly greater than
\* x - EPS when dx > 0, the next integer strictly less than x + EPS when
\* dx < 0, and x when dx = 0, for every x, also on a grid line.
C17_Original ==
  marcher.fn = "alignToGrid" =>
    /\ marcher.dx.n > 0 => LeastIntegerAbove(marcher.number, RSub(marcher.x, EPS))
    /\ marcher.dx.n < 0 => GreatestIntegerBelow(marcher.number, RAdd(marcher.x, EPS))
    /\ marcher.dx.n = 0 => marcher.number = marcher.x

\* C17 amended: alignToGrid(x, dx) is Math.ceil(x + EPS), the least integer
\* >= x + EPS, when dx > 0, and Math.floor(x - EPS), the greatest integer
\* <= x - EPS, when dx < 0: it is strictly beyond x in the direction of dx,
\* and for x on a grid line k it is k + 1 or k - 1.  It is x when dx = 0.
C17_AlignToGridSteps ==
  marcher.fn = "alignToGrid" =>
    /\ marcher.dx.n > 0 =>
         /\ LeastIntegerAtLeast(marcher.number, RAdd(marcher.x, EPS))
         /\ RLt(marcher.x, marcher.number)
         /\ IsInt(marcher.x) => marcher.number = RAdd(marcher.x, I(1))
    /\ marcher.dx.n < 0 =>
         /\ GreatestIntegerAtMost(marcher.number, RSub(marcher.x, EPS))
         /\ RLt(marcher.number, marcher.x)
         /\ IsInt(marcher.x) => marcher.number = RSub(marcher.x, I(1))
    /\ marcher.dx.n = 0 => marcher.number = marcher.x

\* C17 witness: a coordinate on the grid line 1 was aligned with dx > 0 and
\* came out as 2.
C17_Witness ==
  /\ marcher.fn = "alignToGrid"
  /\ marcher.x = I(1)
  /\ marcher.dx.n > 0
  /\ marcher.number = I(2)

\* the grid line next to the coordinate v in the direction of d # 0: the
\* nearest integer at least EPS beyond v
NextGridLine(v, d) ==
  I(CHOOSE n \in (Floor(v) - 2)..(Floor(v) + 2) :
      IF d.n > 0 THEN LeastIntegerAtLeast(I(n), RAdd(v, EPS))
      ELSE GreatestIntegerAtMost(I(n), RSub(v, EPS)))

\* where the line through a and b crosses the vertical line x = k
\* (b.x # a.x), and the horizontal line y = k (b.y # a.y)
VerticalCrossing(a, b, k) ==
  Vector2(k, RAdd(a.y, RMul(RSub(k, a.x), RDiv(RSub(b.y, a.y), RSub(b.x, a.x)))))

HorizontalCrossing(a, b, k) ==
  Vector2(RAdd(a.x, RMul(RSub(k, a.y), RDiv(RSub(b.x, a.x), RSub(b.y, a.y)))), k)

\* C18: for p1 # p2, findRayIntersection(p1, p2) is a point of the line
\* through p1 and p2, beyond p2 in the direction p2 - p1, with an integer x
\* (the crossing of the next vertical grid line) or an integer y (the crossing
\* of the next horizontal grid line): the horizontal crossing only when it is
\* strictly closer to p2 than the vertical one, the vertical one otherwise;
\* for d.x = 0 it keeps x and aligns only y.
C18_MarcherStep ==
  marcher.fn = "findRayIntersection" =>
    LET a == marcher.p1
        b == marcher.p2
        r == marcher.point
        d == sub(b, a)
    IN  /\ RMul(RSub(r.x, a.x), d.y) = RMul(RSub(r.y, a.y), d.x)
        /\ RLt(I(0), RAdd(RMul(RSub(r.x, b.x), d.x), RMul(RSub(r.y, b.y), d.y)))
        /\ IsInt(r.x) \/ IsInt(r.y)
        /\ d.x = I(0) => r = Vector2(b.x, NextGridLine(b.y, d.y))
        /\ (d.x # I(0) /\ d.y = I(0)) => r = Vector2(NextGridLine(b.x, d.x), b.y)
        /\ (d.x # I(0) /\ d.y # I(0)) =>
             LET vertical == VerticalCrossing(a, b, NextGridLine(b.x, d.x))
                 horizontal == HorizontalCrossing(a, b, NextGridLine(b.y, d.y))
             IN  r = IF RLt(sqrDistanceTo(b, horizontal), sqrDistanceTo(b, vertical))
                     THEN horizontal
                     ELSE vertical

\* C18 witness: a step of a slanted ray has returned the crossing of a
\* horizontal grid line that lies strictly before the next vertical one.
C18_Witness ==
  /\ marcher.fn = "findRayIntersection"
  /\ marcher.p2.x # marcher.p1.x
  /\ marcher.p2.y # marcher.p1.y
  /\ IsInt(marcher.point.y)
  /\ ~IsInt(marcher.point.x)

\* C19: findCellAtRayEnd(p1, p2) is floor(p2 + sign(p2 - p1) * EPS) on each
\* axis, so an end on a grid line k is put into the cell on the far side of
\* the line in the direction of travel: cell k when the ray travels up the
\* axis, cell k - 1 when it travels down, never the cell it is leaving.
C19_CellTheRayEnters ==
  marcher.fn = "findCellAtRayEnd" =>
    LET d == sub(marcher.p2, marcher.p1)
        OnAxis(end, delta, cell) ==
          /\ GreatestIntegerAtMost(cell, RAdd(end, RMul(I(Sign(delta)), EPS)))
          /\ (IsInt(end) /\ delta.n > 0) => cell = end
          /\ (IsInt(end) /\ delta.n < 0) => cell = RSub(end, I(1))
    IN  /\ OnAxis(marcher.p2.x, d.x, marcher.point.x)
        /\ OnAxis(marcher.p2.y, d.y, marcher.point.y)

\* C19 witness: the end (1, 1) of a ray that travels down both axes was put
\* into the cell (0, 0).
C19_Witness ==
  /\ marcher.fn = "findCellAtRayEnd"
  /\ marcher.p2 = IVec(1, 1)
  /\ RLt(marcher.p2.x, marcher.p1.x)
  /\ RLt(marcher.p2.y, marcher.p1.y)
  /\ marcher.point = IVec(0, 0)

\* C20: a column whose ray ends in a cell without a tile, an empty cell of
\* the grid or a cell outside the grid, gets no drawing command; and castRay
\* does not stop at a cell outside the grid before the far clipping distance
\* is reached.
C20_NoTileDrawsNothing ==
  /\ \A i \in 1..Len(canvas.columns) :
       canvas.columns[i].wall \in {Null, Undefined} =>
         canvas.columns[i].commands = << >>
  /\ \A i \in 1..Len(canvas.columns) :
       OutsideGrid(scene, canvas.columns[i].hitCellCoordinates) =>
         /\ canvas.columns[i].wall = Undefined
         /\ canvas.columns[i].commands = << >>
  /\ (canvas.pc = "columns" /\ pc = "done" /\ InsideFarClip) =>
       ~OutsideGrid(scene, HitCell)

\* C20 witness: in one pass a ray has ended outside the grid and another at
\* the far clip in an empty cell of the grid, and a third was drawn.
C20_Witness ==
  /\ \E i \in 1..Len(canvas.columns) :
       /\ OutsideGrid(scene, canvas.columns[i].hitCellCoordinates)
       /\ canvas.columns[i].commands = << >>
  /\ \E i \in 1..Len(canvas.columns) :
       /\ ~OutsideGrid(scene, canvas.columns[i].hitCellCoordinates)
       /\ canvas.columns[i].wall = Null
       /\ RLe(FarSquared, sqrDistanceTo(player.position, canvas.columns[i].ray))
  /\ \E i \in 1..Len(canvas.columns) : canvas.columns[i].commands # << >>

(***************************************************************************)
(* Claims C21 to C30                                                       *)
(***************************************************************************)
\* the columns of the pass whose ray ended at a flat-colour tile
FlatColumns ==
  {i \in 1..Len(canvas.columns) : canvas.columns[i].wall.kind = "string"}

\* C21: a column whose ray hits a flat-colour tile is filled with that tile's
\* own colour, so columns that end at flat tiles of different colours are
\* filled in different colours.
C21_FlatTileOwnColour ==
  /\ \A i \in FlatColumns :
       /\ Len(canvas.columns[i].commands) = 1
       /\ canvas.columns[i].commands[1].op = "fillRect"
       /\ canvas.columns[i].commands[1].style = canvas.columns[i].wall.name
  /\ \A i, j \in FlatColumns :
       canvas.columns[i].wall.name # canvas.columns[j].wall.name
         => canvas.columns[i].commands[1].style # canvas.columns[j].commands[1].style

\* the drawImage commands of the pass, each with the offset of its hit point
\* within the hit cell
TexturedStrips ==
  {[command |-> canvas.columns[i].commands[1],
    offset |-> sub(canvas.columns[i].ray, canvas.columns[i].hitCellCoordinates)] :
     i \in {j \in 1..Len(canvas.columns) : canvas.columns[j].wall.kind = "image"}}

\* v is within EPS of 0 or of 1
NearCellEdge(v) == RLt(RAbs(v), EPS) \/ RLt(RAbs(RSub(v, I(1))), EPS)

\* C22 as stated: u is the y offset whenever the x offset of the hit point
\* within the hit cell is within EPS of 0 or of 1, and the x offset otherwise;
\* the sampled texture column is floor(u * textureWidth).
C22_Original ==
  \A strip \in TexturedStrips :
    /\ strip.command.op = "drawImage"
    /\ strip.command.textureCoordinate
         = IF NearCellEdge(strip.offset.x) THEN strip.offset.y ELSE strip.offset.x
    /\ strip.command.sx
         = Floor(RMul(strip.command.textureCoordinate, I(TextureWidth)))

\* C22 amended: u is the y offset whenever the x offset is within EPS of 0 or
\* of 1 and the y offset is greater than 0; otherwise u is the x offset.  The
\* sampled texture column is floor(u * textureWidth).
C22_TextureCoordinateByEdge ==
  \A strip \in TexturedStrips :
    /\ strip.command.op = "drawImage"
    /\ strip.command.textureCoordinate
         = IF NearCellEdge(strip.offset.x) /\ RLt(I(0), strip.offset.y)
           THEN strip.offset.y
           ELSE strip.offset.x
    /\ strip.command.sx
         = Floor(RMul(strip.command.textureCoordinate, I(TextureWidth)))

\* C22 witness: one pass has drawn a strip for a hit on a vertical cell edge
\* (u is the y offset, not 0) and a strip for a hit inside a horizontal edge
\* (u is the x offset).
C22_Witness ==
  /\ \E strip \in TexturedStrips :
       /\ NearCellEdge(strip.offset.x)
       /\ strip.command.textureCoordinate = strip.offset.y
       /\ strip.offset.y # strip.offset.x
       /\ strip.command.sx > 0
  /\ \E strip \in TexturedStrips :
       /\ ~NearCellEdge(strip.offset.x)
       /\ strip.command.textureCoordinate = strip.offset.x

\* C23: every wall tile is drawn whichever representation it has: the minimap
\* fills every cell for which isWall holds, flat colour or texture, and a
\* column whose ray ends in such a cell draws a strip.
C23_EveryWallTileDrawn ==
  /\ canvas.minimap.drawn =>
       \A c \in WallCells(scene) : c \in canvas.minimap.tiles
  /\ \A i \in 1..Len(canvas.columns) :
       isWall(scene, canvas.columns[i].hitCellCoordinates)
         => canvas.columns[i].commands # << >>

\* C24: no degenerate ray reaches the marcher: the throughPoint that
\* renderScene hands to castRay for a column differs from the player's
\* position, and whenever castRay is in its loop during a render pass, the
\* two points it hands to findCellAtRayEnd and findRayIntersection differ.
C24_NoDegenerateRay ==
  /\ \A i \in 1..Len(canvas.columns) :
       canvas.columns[i].throughPoint # player.position
  /\ (canvas.pc = "columns" /\ pc = "loop") =>
       /\ start = player.position
       /\ through # start
       /\ p1 # p2

\* C24 witness: during a render pass castRay has marched at least two steps
\* from the player's position along a ray that is parallel to no axis.
C24_Witness ==
  /\ canvas.pc = "columns"
  /\ pc = "loop"
  /\ p1 # start /\ p1 # through
  /\ p1.x # p2.x /\ p1.y # p2.y

\* the column that renderScene has drawn from the ray castRay returned last
\* (castRay's p1 and p2 are as it left them)
LastColumn == canvas.columns[Len(canvas.columns)]

ColumnJustDrawn == canvas.columns # << >> /\ pc = "idle"

\* C27: the cell renderScene looks up for the returned hit point,
\* findCellAtRayEnd(player.position, hit), is the cell castRay computed from
\* its last two marching points when it stopped; so when castRay stopped at a
\* wall, the tile looked up for drawing is the tile of that wall cell.
C27_DrawnCellIsStopCell ==
  /\ (canvas.pc = "columns" /\ pc = "done") =>
       findCellAtRayEnd(player.position, p2) = findCellAtRayEnd(p1, p2)
  /\ ColumnJustDrawn =>
       /\ LastColumn.ray = p2
       /\ LastColumn.hitCellCoordinates = findCellAtRayEnd(p1, p2)
       /\ InsideFarClip =>
            /\ isWall(scene, LastColumn.hitCellCoordinates)
            /\ LastColumn.wall = getWall(scene, findCellAtRayEnd(p1, p2))

\* C27 witness: a column was drawn from a ray that marched at least two steps
\* and stopped at a wall on a grid line it reached travelling down the x axis:
\* the hit cell is the one beyond the line, not the floor of the hit point.
C27_Witness ==
  /\ ColumnJustDrawn
  /\ InsideFarClip
  /\ p1 # start /\ p1 # through
  /\ IsInt(p2.x) /\ RLt(p2.x, p1.x)
  /\ LastColumn.hitCellCoordinates # mapFloor(p2)
  /\ LastColumn.commands # << >>

\* (hit - player.position) . forward of a column
DepthOf(column) ==
  dot(sub(column.ray, player.position), angle(player.direction))

\* C28: every column that draws a strip has depth (hit - position) . forward
\* of at least NEAR_CLIPPING_PLANE, so the depth is strictly positive and the
\* strip height SCREEN_HEIGHT / depth is positive and at most
\* SCREEN_HEIGHT / NEAR_CLIPPING_PLANE.
C28_DepthAtLeastNearPlane ==
  \A i \in 1..Len(canvas.columns) :
    canvas.columns[i].commands # << >> =>
      /\ RLe(NEAR_CLIPPING_PLANE, DepthOf(canvas.columns[i]))
      /\ RLt(I(0), DepthOf(canvas.columns[i]))
      /\ \A k \in 1..Len(canvas.columns[i].commands) :
           /\ RLt(I(0), canvas.columns[i].commands[k].wallHeight)
           /\ RLe(canvas.columns[i].commands[k].wallHeight,
                  RDiv(I(SCREEN_HEIGHT), NEAR_CLIPPING_PLANE))
           /\ canvas.columns[i].commands[k].rect.h > 0

\* C28 witness: one pass has drawn a strip for a wall less than half a cell
\* deep, higher than the screen, and another for a wall more than one cell
\* deep.
C28_Witness ==
  /\ \E i \in 1..Len(canvas.columns) :
       /\ canvas.columns[i].commands # << >>
       /\ RLt(DepthOf(canvas.columns[i]), Rat(1, 2))
       /\ canvas.columns[i].commands[1].rect.h > SCREEN_HEIGHT
  /\ \E i \in 1..Len(canvas.columns) :
       /\ canvas.columns[i].commands # << >>
       /\ RLt(I(1), DepthOf(canvas.columns[i]))

\* C29: for every textured strip drawn the texture coordinate u satisfies
\* 0 <= u < 1 and the sampled source column floor(u * texture.width) lies in
\* [0, texture.width - 1], also for hits at cell corners.
C29_SourceColumnInTexture ==
  \A strip \in TexturedStrips :
    /\ RLe(I(0), strip.command.textureCoordinate)
    /\ RLt(strip.command.textureCoordinate, I(1))
    /\ strip.command.sx \in 0..(TextureWidth - 1)

\* p lies inside the grid bounds [0, width) x [0, height)
InsideGrid(s, p) ==
  /\ RLe(I(0), p.x) /\ RLt(p.x, s.width)
  /\ RLe(I(0), p.y) /\ RLt(p.y, s.height)

\* the border cells of the scene are all walls
WalledBorder(s) ==
  \A c \in SceneCells(s) :
    (c.x.n \in {0, Ceil(s.width) - 1} \/ c.y.n \in {0, Ceil(s.height) - 1})
      => isWall(s, c)

\* C26: in a scene whose border cells are all walls, a player inside the
\* grid bounds is inside them after every frame, whatever time elapsed, and
\* no frame moves the player across a wall cell.
C26_NeverAcrossWall ==
  [][(WalledBorder(scene) /\ InsideGrid(scene, player.position)) =>
       /\ InsideGrid(scene, player'.position)
       /\ \A c \in WallCells(scene) :
            ~PassesThrough(player.position, player'.position, c)]_vars

\* the flag of a key
FlagOf(key) ==
  CASE key = "KeyW" -> movingForward
    [] key = "KeyS" -> movingBackward
    [] key = "KeyA" -> turningLeft
    [] key = "KeyD" -> turningRight

\* each flag is set exactly when the most recent non-repeat event of its key
\* was a keydown
FlagsFollowLog == \A key \in FlagKeys : FlagOf(key) = (keyLog[key] = "keydown")

\* a frame has run (one that changed anything)
FrameStep == frameLocals' # frameLocals \/ player' # player

\* C25: after any sequence of key events each of the four flags (KeyW
\* forward, KeyS backward, KeyA turn left, KeyD turn right) is set exactly when
\* the most recent non-repeat event of its key was a keydown; an event changes
\* at most the flag of its own key; and a frame in which both flags of an
\* opposing pair are set has zero net velocity (the position stays), or zero
\* net rotation (the direction stays).
C25_FlagsFollowKeys ==
  [][/\ FlagsFollowLog
     /\ FlagsFollowLog'
     /\ \A key \in FlagKeys : keyLog'[key] = keyLog[key] => FlagOf(key)' = FlagOf(key)
     /\ FlagsChanged => (player' = player /\ frameLocals' = frameLocals)
     /\ (movingForward /\ movingBackward) =>
          /\ Movement(player.direction, movingForward, movingBackward) = zero
          /\ FrameStep => player'.position = player.position
     /\ (turningLeft /\ turningRight) =>
          /\ RotationSpeed(turningLeft, turningRight) = 0
          /\ FrameStep => player'.direction = player.direction]_vars

\* C25 witness: forward and backward are both held, left was pressed and
\* released, right is held; the last frame took time, turned the player, and
\* left it where an earlier frame had moved it.
C25_Witness ==
  /\ keyLog = [KeyW |-> "keydown", KeyS |-> "keydown", KeyA |-> "keyup",
               KeyD |-> "keydown"]
  /\ movingForward /\ movingBackward /\ ~turningLeft /\ turningRight
  /\ RLt(I(0), frameLocals.elapsedSeconds)
  /\ frameLocals.canX /\ frameLocals.canY
  /\ player.direction # 2
  /\ player.position # Vector2(I(2), Rat(3, 2))

\* the socket list holds exactly the open connections, each once
ListIsOpenSockets ==
  /\ {server.webSockets[i] : i \in 1..Len(server.webSockets)} = server.open
  /\ Len(server.webSockets) = Cardinality(server.open)

\* C30: after any interleaving of connections and closures the socket list
\* of the hot-reload server holds exactly the open connections, each once;
\* closing a socket removes that socket from the list and no other; and a
\* change of a watched file sends one "reload" to every socket in the list.
C30_SocketListIsOpenSockets ==
  [][/\ ListIsOpenSockets
     /\ ListIsOpenSockets'
     /\ \A ws \in server.open :
          server'.open = server.open \ {ws} =>
            server'.webSockets = SelectSeq(server.webSockets, LAMBDA s : s # ws)
     /\ (server'.open = server.open /\ server'.inbox # server.inbox) =>
          /\ server'.webSockets = server.webSockets
          /\ \A i \in 1..Len(server.webSockets) :
               server'.inbox[server.webSockets[i]]
                 = server.inbox[server.webSockets[i]] + 1]_vars

\* C30 witness: two connections are open, listed in the order 3, 1; the
\* older one has been sent "reload" twice, the other once.
C30_Witness ==
  /\ server.webSockets = <<3, 1>>
  /\ server.open = {1, 3}
  /\ server.inbox[3] = 2
  /\ server.inbox[1] = 1

=============================================================================
